---- MODULE Spec2Model ----
(***************************************************************************)
(* Tic-tac-toe: the Standard and No-Draw rule engines (game_logic.py), the *)
(* Standard minimax player (ai_hard.py) and the way the orchestrator       *)
(* (gui.py) drives them.                                                   *)
(*                                                                         *)
(* The board is a function 0..8 -> {"X", "O", "None"}; Python's None is    *)
(* the string "None".  The two move histories are sequences, oldest entry  *)
(* first (deque.popleft removes entry 1, deque.append adds at the end).    *)
(***************************************************************************)
EXTENDS Integers, Sequences, FiniteSets, TLC

VARIABLES
    mode,            \* which engine class was constructed: "standard" | "no_draw"
    board,           \* self.board
    current_player,  \* self.current_player
    game_over,       \* self.game_over
    winner,          \* self.winner
    x_moves,         \* NoDrawGame.x_moves (stays empty in the Standard engine)
    o_moves,         \* NoDrawGame.o_moves (stays empty in the Standard engine)
    result,          \* what the last make_move call returned ("True" or
                     \* "False"); "none" when no call was made since
                     \* construction or reset()
    last_position,   \* the position argument of the last make_move call
                     \* when that call was accepted: <<p>>; <<>> otherwise
    removed_pos,     \* make_move's local removed_pos in the last call:
                     \* <<c>> when that call vacated cell c, <<>> (Python's
                     \* None) when it vacated none
                     \* (reset() leaves last_position and removed_pos alone:
                     \* they go on describing the last make_move call)
    ai_thinking,     \* TicTacToeGUI.ai_thinking
    after_queue      \* the _execute_ai_move callbacks that root.after(400,
                     \* ...) has scheduled and Tk has not run yet, in the
                     \* order they fall due (all have the same delay, so
                     \* the order they were scheduled in); each entry says
                     \* whether it was scheduled in the game now on the
                     \* screen ("this_game") or before the last Restart
                     \* ("earlier_game")

engine == <<board, current_player, game_over, winner, x_moves, o_moves>>
gui == <<ai_thinking, after_queue>>
vars == <<mode, board, current_player, game_over, winner, x_moves, o_moves,
          result, last_position, removed_pos, ai_thinking, after_queue>>

None == "None"
Marks == {"X", "O"}
Cells == 0..8

\* How far outside 0..8 the positions handed to make_move range.
OutOfRange == 1
Positions == (0 - OutOfRange)..(8 + OutOfRange)

\* An Optional[int]: None is the empty sequence, the integer i is <<i>>.
NoPos == <<>>
Some(i) == <<i>>

EmptyBoard == [i \in Cells |-> None]

Other(player) == IF player = "X" THEN "O" ELSE "X"

----------------------------------------------------------------------------
(* game_logic.py                                                           *)

\* the table without its last entry, the diagonal 2-4-6
WINNING_COMBINATIONS_without_last ==
    << <<0, 1, 2>>, <<3, 4, 5>>, <<6, 7, 8>>,
       <<0, 3, 6>>, <<1, 4, 7>>, <<2, 5, 8>>,
       <<0, 4, 8>> >>

WINNING_COMBINATIONS ==
    << <<0, 1, 2>>, <<3, 4, 5>>, <<6, 7, 8>>,
       <<0, 3, 6>>, <<1, 4, 7>>, <<2, 5, 8>>,
       <<0, 4, 8>>, <<2, 4, 6>> >>

\* TicTacToeGame.check_winner, on board b
TicTacToeGame_check_winner(b, player) ==
    \E k \in 1..Len(WINNING_COMBINATIONS) :
        \A j \in 1..3 : b[WINNING_COMBINATIONS[k][j]] = player

\* get_winning_combination without the test of self.winner
get_winning_combination_without_guard ==
    LET hits == {k \in 1..Len(WINNING_COMBINATIONS) :
                    \A j \in 1..3 : board[WINNING_COMBINATIONS[k][j]] = winner}
    IN  IF hits = {} THEN <<>>
        ELSE WINNING_COMBINATIONS[CHOOSE k \in hits : \A i \in hits : k <= i]

\* TicTacToeGame.get_winning_combination (both engines): the combination as
\* a tuple, <<>> for Python's None
get_winning_combination ==
    LET hits == {k \in 1..Len(WINNING_COMBINATIONS) :
                    \A j \in 1..3 : board[WINNING_COMBINATIONS[k][j]] = winner}
    IN  IF winner = None \/ hits = {} THEN <<>>
        ELSE WINNING_COMBINATIONS[CHOOSE k \in hits : \A i \in hits : k <= i]

\* is_board_full taking a board with one empty cell left for full
TicTacToeGame_is_board_full_but_one(b) ==
    Cardinality({i \in Cells : b[i] = None}) <= 1

\* TicTacToeGame.is_board_full, on board b
TicTacToeGame_is_board_full(b) == \A i \in Cells : b[i] # None

\* NoDrawGame.is_board_full
NoDrawGame_is_board_full(b) == FALSE

\* is_valid_move without the game_over test
TicTacToeGame_is_valid_move_ignores_game_over(position) ==
    /\ 0 <= position /\ position <= 8
    /\ board[position] = None

\* TicTacToeGame.is_valid_move
TicTacToeGame_is_valid_move(position) ==
    /\ ~game_over
    /\ 0 <= position /\ position <= 8
    /\ board[position] = None

MAX_MARKS == 3

\* _get_player_moves handing out X's history to both players
_get_player_moves_always_x(player) == x_moves

\* NoDrawGame._get_player_moves
_get_player_moves(player) == IF player = "X" THEN x_moves ELSE o_moves

\* get_oldest_mark returning the newest entry of the history
get_oldest_mark_newest(player) ==
    LET moves == _get_player_moves(player)
    IN  IF Len(moves) >= MAX_MARKS THEN Some(moves[Len(moves)]) ELSE NoPos

\* NoDrawGame.get_oldest_mark
get_oldest_mark(player) ==
    LET moves == _get_player_moves(player)
    IN  IF Len(moves) >= MAX_MARKS THEN Some(moves[1]) ELSE NoPos

\* is_valid_move accepting any of the player's own marks at capacity
NoDrawGame_is_valid_move_any_own_mark(position) ==
    IF game_over \/ ~(0 <= position /\ position <= 8) THEN FALSE
    ELSE LET cell == board[position]
             moves == _get_player_moves(current_player)
         IN  IF cell = None THEN TRUE
             ELSE IF cell # current_player THEN FALSE
             ELSE IF Len(moves) >= MAX_MARKS THEN TRUE
             ELSE FALSE

\* NoDrawGame.is_valid_move
NoDrawGame_is_valid_move(position) ==
    IF game_over \/ ~(0 <= position /\ position <= 8) THEN FALSE
    ELSE LET cell == board[position]
             moves == _get_player_moves(current_player)
         IN  IF cell = None THEN TRUE
             ELSE IF cell # current_player THEN FALSE
             ELSE IF Len(moves) >= MAX_MARKS /\ moves[1] = position THEN TRUE
             ELSE FALSE

\* is_valid_move as dispatched on the constructed class
is_valid_move(position) ==
    IF mode = "no_draw" THEN NoDrawGame_is_valid_move(position)
    ELSE TicTacToeGame_is_valid_move(position)

\* TicTacToeGame.get_valid_moves
get_valid_moves == {i \in Cells : board[i] = None}

\* get_board_copy handing out the engine's own list instead of a copy
get_board_copy_same_list == [list |-> "self.board", cells |-> board]

\* TicTacToeGame.get_board_copy: a new list object with the cells of
\* self.board.  `list` says which list object the caller holds, so that a
\* write through it can be told from a write to self.board.
get_board_copy == [list |-> "copy", cells |-> board]

\* NoDrawGame without its own reset: the histories survive TicTacToeGame.reset
Reset_inherited ==
    /\ board' = EmptyBoard
    /\ current_player' = "X"
    /\ game_over' = FALSE
    /\ winner' = None
    /\ result' = "none"
    /\ UNCHANGED <<mode, x_moves, o_moves, last_position, removed_pos>>
    /\ UNCHANGED gui

\* TicTacToeGame.reset and NoDrawGame.reset.  last_position and removed_pos
\* keep describing the last make_move call.
\* reset() followed by what its caller assigns to current_player before
\* anything else runs: reset() itself leaves 'X' there
reset_leaving(player) ==
    /\ board' = EmptyBoard
    /\ current_player' = player
    /\ game_over' = FALSE
    /\ winner' = None
    /\ x_moves' = <<>>
    /\ o_moves' = <<>>
    /\ result' = "none"
    /\ UNCHANGED <<mode, last_position, removed_pos>>

\* game.reset() called on the engine alone: the orchestrator's fields stay
Reset == reset_leaving("X") /\ UNCHANGED gui

\* make_move testing for the full board before testing for the winner
TicTacToeGame_make_move_full_first(position) ==
    IF ~TicTacToeGame_is_valid_move(position)
    THEN /\ result' = "False"
         /\ removed_pos' = NoPos
         /\ last_position' = NoPos
         /\ UNCHANGED <<mode, board, current_player, game_over, winner,
                        x_moves, o_moves>>
    ELSE LET b1 == [board EXCEPT ![position] = current_player]
         IN  /\ board' = b1
             /\ IF TicTacToeGame_is_board_full(b1)
                THEN /\ game_over' = TRUE
                     /\ winner' = None
                     /\ UNCHANGED current_player
                ELSE IF TicTacToeGame_check_winner(b1, current_player)
                THEN /\ game_over' = TRUE
                     /\ winner' = current_player
                     /\ UNCHANGED current_player
                ELSE /\ current_player' = Other(current_player)
                     /\ UNCHANGED <<game_over, winner>>
             /\ result' = "True"
             /\ removed_pos' = NoPos
             /\ last_position' = Some(position)
             /\ UNCHANGED <<mode, x_moves, o_moves>>

\* make_move that hands the turn over only after an O move
TicTacToeGame_make_move_no_switch(position) ==
    IF ~TicTacToeGame_is_valid_move(position)
    THEN /\ result' = "False"
         /\ removed_pos' = NoPos
         /\ last_position' = NoPos
         /\ UNCHANGED <<mode, board, current_player, game_over, winner,
                        x_moves, o_moves>>
    ELSE LET b1 == [board EXCEPT ![position] = current_player]
         IN  /\ board' = b1
             /\ IF TicTacToeGame_check_winner(b1, current_player)
                THEN /\ game_over' = TRUE
                     /\ winner' = current_player
                     /\ UNCHANGED current_player
                ELSE IF TicTacToeGame_is_board_full(b1)
                THEN /\ game_over' = TRUE
                     /\ winner' = None
                     /\ UNCHANGED current_player
                ELSE /\ current_player' = "X"
                     /\ UNCHANGED <<game_over, winner>>
             /\ result' = "True"
             /\ removed_pos' = NoPos
             /\ last_position' = Some(position)
             /\ UNCHANGED <<mode, x_moves, o_moves>>

\* TicTacToeGame.make_move
TicTacToeGame_make_move(position) ==
    IF ~TicTacToeGame_is_valid_move(position)
    THEN /\ result' = "False"
         /\ removed_pos' = NoPos
         /\ last_position' = NoPos
         /\ UNCHANGED <<mode, board, current_player, game_over, winner,
                        x_moves, o_moves>>
    ELSE LET b1 == [board EXCEPT ![position] = current_player]
         IN  /\ board' = b1
             /\ IF TicTacToeGame_check_winner(b1, current_player)
                THEN /\ game_over' = TRUE
                     /\ winner' = current_player
                     /\ UNCHANGED current_player
                ELSE IF TicTacToeGame_is_board_full(b1)
                THEN /\ game_over' = TRUE
                     /\ winner' = None
                     /\ UNCHANGED current_player
                ELSE /\ current_player' = Other(current_player)
                     /\ UNCHANGED <<game_over, winner>>
             /\ result' = "True"
             /\ removed_pos' = NoPos
             /\ last_position' = Some(position)
             /\ UNCHANGED <<mode, x_moves, o_moves>>

\* The No-Draw move with its parts open to change: evict_first does the
\* eviction before the validity test, capacity is the history length at
\* which a mark is evicted, newest makes the evicted mark the newest one.
NoDrawGame_make_move_variant(position, evict_first, capacity, newest) ==
    LET player == current_player
        moves == _get_player_moves(player)
        evict == Len(moves) >= capacity
        removed == IF newest THEN moves[Len(moves)] ELSE Head(moves)
        moves1 == IF ~evict THEN moves
                  ELSE IF newest THEN SubSeq(moves, 1, Len(moves) - 1)
                  ELSE Tail(moves)
        b1 == IF evict THEN [board EXCEPT ![removed] = None] ELSE board
        b2 == [b1 EXCEPT ![position] = player]
        moves2 == Append(moves1, position)
    IN  IF ~NoDrawGame_is_valid_move(position)
        THEN /\ result' = "False"
             /\ removed_pos' = NoPos
             /\ last_position' = NoPos
             /\ board' = (IF evict_first THEN b1 ELSE board)
             /\ IF evict_first /\ player = "X"
                THEN x_moves' = moves1 /\ UNCHANGED o_moves
                ELSE IF evict_first
                THEN o_moves' = moves1 /\ UNCHANGED x_moves
                ELSE UNCHANGED <<x_moves, o_moves>>
             /\ UNCHANGED <<mode, current_player, game_over, winner>>
        ELSE /\ board' = b2
             /\ IF player = "X"
                THEN x_moves' = moves2 /\ UNCHANGED o_moves
                ELSE o_moves' = moves2 /\ UNCHANGED x_moves
             /\ IF TicTacToeGame_check_winner(b2, player)
                THEN /\ game_over' = TRUE
                     /\ winner' = player
                     /\ UNCHANGED current_player
                ELSE /\ current_player' = Other(player)
                     /\ UNCHANGED <<game_over, winner>>
             /\ result' = "True"
             /\ removed_pos' = (IF evict THEN Some(removed) ELSE NoPos)
             /\ last_position' = Some(position)
             /\ UNCHANGED mode

\* make_move evicting the oldest mark before it validates the position
NoDrawGame_make_move_evicts_before_check(position) ==
    NoDrawGame_make_move_variant(position, TRUE, MAX_MARKS, FALSE)

\* make_move evicting only once the history holds MAX_MARKS + 1 entries
NoDrawGame_make_move_late_eviction(position) ==
    NoDrawGame_make_move_variant(position, FALSE, MAX_MARKS + 1, FALSE)

\* make_move evicting the newest mark (pop) instead of the oldest (popleft)
NoDrawGame_make_move_evicts_newest(position) ==
    NoDrawGame_make_move_variant(position, FALSE, MAX_MARKS, TRUE)

\* NoDrawGame without its own make_move: the inherited one runs
NoDrawGame_make_move_inherited(position) ==
    TicTacToeGame_make_move(position)

\* make_move testing for the win on the board before the oldest mark is
\* taken off it: the evicted mark still counts towards a line
NoDrawGame_make_move_win_test_before_eviction(position) ==
    IF ~NoDrawGame_is_valid_move(position)
    THEN /\ result' = "False"
         /\ removed_pos' = NoPos
         /\ last_position' = NoPos
         /\ UNCHANGED <<mode, board, current_player, game_over, winner,
                        x_moves, o_moves>>
    ELSE LET player == current_player
             moves == _get_player_moves(player)
             evict == Len(moves) >= MAX_MARKS
             removed == Head(moves)
             moves1 == IF evict THEN Tail(moves) ELSE moves
             b0 == [board EXCEPT ![position] = player]
             b1 == IF evict THEN [board EXCEPT ![removed] = None] ELSE board
             b2 == [b1 EXCEPT ![position] = player]
             moves2 == Append(moves1, position)
         IN  /\ board' = b2
             /\ IF player = "X"
                THEN x_moves' = moves2 /\ UNCHANGED o_moves
                ELSE o_moves' = moves2 /\ UNCHANGED x_moves
             /\ IF TicTacToeGame_check_winner(b0, player)
                THEN /\ game_over' = TRUE
                     /\ winner' = player
                     /\ UNCHANGED current_player
                ELSE /\ current_player' = Other(player)
                     /\ UNCHANGED <<game_over, winner>>
             /\ result' = "True"
             /\ removed_pos' = (IF evict THEN Some(removed) ELSE NoPos)
             /\ last_position' = Some(position)
             /\ UNCHANGED mode

\* NoDrawGame.make_move
NoDrawGame_make_move(position) ==
    IF ~NoDrawGame_is_valid_move(position)
    THEN /\ result' = "False"
         /\ removed_pos' = NoPos
         /\ last_position' = NoPos
         /\ UNCHANGED <<mode, board, current_player, game_over, winner,
                        x_moves, o_moves>>
    ELSE LET player == current_player
             moves == _get_player_moves(player)
             evict == Len(moves) >= MAX_MARKS
             removed == Head(moves)
             moves1 == IF evict THEN Tail(moves) ELSE moves
             b1 == IF evict THEN [board EXCEPT ![removed] = None] ELSE board
             b2 == [b1 EXCEPT ![position] = player]
             moves2 == Append(moves1, position)
         IN  /\ board' = b2
             /\ IF player = "X"
                THEN x_moves' = moves2 /\ UNCHANGED o_moves
                ELSE o_moves' = moves2 /\ UNCHANGED x_moves
             /\ IF TicTacToeGame_check_winner(b2, player)
                THEN /\ game_over' = TRUE
                     /\ winner' = player
                     /\ UNCHANGED current_player
                ELSE /\ current_player' = Other(player)
                     /\ UNCHANGED <<game_over, winner>>
             /\ result' = "True"
             /\ removed_pos' = (IF evict THEN Some(removed) ELSE NoPos)
             /\ last_position' = Some(position)
             /\ UNCHANGED mode

\* self.game.make_move(position) on whichever engine was constructed
game_make_move(position) ==
    IF mode = "no_draw" THEN NoDrawGame_make_move(position)
    ELSE TicTacToeGame_make_move(position)

\* game.make_move(position) called on the engine alone: the orchestrator's
\* fields stay
MakeMove(position) == game_make_move(position) /\ UNCHANGED gui

----------------------------------------------------------------------------
(* ai_hard.py, Standard game                                               *)

ai_hard_WINNING_COMBINATIONS ==
    << <<0, 1, 2>>, <<3, 4, 5>>, <<6, 7, 8>>,
       <<0, 3, 6>>, <<1, 4, 7>>, <<2, 5, 8>>,
       <<0, 4, 8>>, <<2, 4, 6>> >>

\* ai_hard.check_winner
check_winner(b, player) ==
    \E k \in 1..Len(ai_hard_WINNING_COMBINATIONS) :
        \A j \in 1..3 : b[ai_hard_WINNING_COMBINATIONS[k][j]] = player

\* ai_hard.is_board_full
is_board_full(b) == \A i \in Cells : b[i] # None

\* float('-inf'): below every score (scores lie in -10..10)
NEG_INF == -100

SetMax(S) == CHOOSE x \in S : \A y \in S : x >= y
SetMin(S) == CHOOSE x \in S : \A y \in S : x <= y

\* ai_hard.minimax.  Each for loop keeps the running max (min) of the scores
\* of the trial placements on the empty cells, each placement undone before
\* the next: its result is the max (min) of those scores.  The non-terminal
\* board has an empty cell, so the loop runs at least once.
RECURSIVE minimax(_, _, _)
minimax(b, depth, is_maximizing) ==
    IF check_winner(b, "O") THEN 10 - depth
    ELSE IF check_winner(b, "X") THEN depth - 10
    ELSE IF is_board_full(b) THEN 0
    ELSE IF is_maximizing
    THEN SetMax({minimax([b EXCEPT ![pos] = "O"], depth + 1, FALSE) :
                    pos \in {i \in Cells : b[i] = None}})
    ELSE SetMin({minimax([b EXCEPT ![pos] = "X"], depth + 1, TRUE) :
                    pos \in {i \in Cells : b[i] = None}})

\* the loop taking a score that equals the best so far as an improvement
RECURSIVE get_hard_move_loop_last_best(_, _, _, _)
get_hard_move_loop_last_best(b, pos, best_score, best_move) ==
    IF pos > 8 THEN best_move
    ELSE IF b[pos] # None
    THEN get_hard_move_loop_last_best(b, pos + 1, best_score, best_move)
    ELSE LET score == minimax([b EXCEPT ![pos] = "O"], 0, FALSE)
         IN  IF score >= best_score
             THEN get_hard_move_loop_last_best(b, pos + 1, score, pos)
             ELSE get_hard_move_loop_last_best(b, pos + 1, best_score,
                                               best_move)

\* ai_hard.get_hard_move: the for loop over `empty`, from index pos on
RECURSIVE get_hard_move_loop(_, _, _, _)
get_hard_move_loop(b, pos, best_score, best_move) ==
    IF pos > 8 THEN best_move
    ELSE IF b[pos] # None
    THEN get_hard_move_loop(b, pos + 1, best_score, best_move)
    ELSE LET score == minimax([b EXCEPT ![pos] = "O"], 0, FALSE)
         IN  IF score > best_score
             THEN get_hard_move_loop(b, pos + 1, score, pos)
             ELSE get_hard_move_loop(b, pos + 1, best_score, best_move)

\* get_hard_move whose loop never updates best_move: it returns empty[0]
get_hard_move_first_empty(b) ==
    LET empty == {i \in Cells : b[i] = None}
    IN  IF empty = {} THEN NoPos
        ELSE Some(CHOOSE i \in empty : \A j \in empty : i <= j)

\* ai_hard.get_hard_move
get_hard_move(b) ==
    LET empty == {i \in Cells : b[i] = None}
    IN  IF empty = {} THEN NoPos
        ELSE Some(get_hard_move_loop(b, 0, NEG_INF,
                                     CHOOSE i \in empty : \A j \in empty : i <= j))

----------------------------------------------------------------------------
(* ai_hard.py, No-Draw game.  The functions write to the list `board` they *)
(* are given and to the module's dictionary _tp_table, so the operators    *)
(* carry both along: a call yields the score, the table and the board it   *)
(* leaves behind.                                                          *)

_MOVE_PRIORITY == <<4, 0, 2, 6, 8, 1, 3, 5, 7>>

ai_hard_MAX_MARKS == 3

\* float('inf'): above every score
POS_INF == 100

Max2(a, b) == IF a >= b THEN a ELSE b
Min2(a, b) == IF a <= b THEN a ELSE b

\* ai_hard.minimax with the list it is given: [score, board], the score it
\* returns and the cells of the caller's board list at the return.
\* minimax_call_loop is either for loop (lines 52-55, 59-62) from entry k of
\* `empty` on, `empty` being computed once, before the loop.
RECURSIVE minimax_call(_, _, _)
RECURSIVE minimax_call_loop_no_undo(_, _, _, _, _, _)
RECURSIVE minimax_call_loop(_, _, _, _, _, _)

\* the for loops without their `board[pos] = None`
minimax_call_loop_no_undo(b, depth, is_maximizing, empty, k, best) ==
    IF k > Len(empty) THEN [score |-> best, board |-> b]
    ELSE CHOOSE ret \in {
             minimax_call_loop_no_undo(
                 sub.board, depth, is_maximizing, empty, k + 1,
                 IF is_maximizing THEN Max2(best, sub.score)
                 ELSE Min2(best, sub.score))
             : sub \in { minimax_call(
                 [b EXCEPT ![empty[k]] = IF is_maximizing THEN "O" ELSE "X"],
                 depth + 1, ~is_maximizing) } } : TRUE

minimax_call_loop(b, depth, is_maximizing, empty, k, best) ==
    IF k > Len(empty) THEN [score |-> best, board |-> b]
    ELSE CHOOSE ret \in {
             minimax_call_loop(
                 [sub.board EXCEPT ![empty[k]] = None],
                 depth, is_maximizing, empty, k + 1,
                 IF is_maximizing THEN Max2(best, sub.score)
                 ELSE Min2(best, sub.score))
             : sub \in { minimax_call(
                 [b EXCEPT ![empty[k]] = IF is_maximizing THEN "O" ELSE "X"],
                 depth + 1, ~is_maximizing) } } : TRUE

minimax_call(b, depth, is_maximizing) ==
    IF check_winner(b, "O") THEN [score |-> 10 - depth, board |-> b]
    ELSE IF check_winner(b, "X") THEN [score |-> depth - 10, board |-> b]
    ELSE IF is_board_full(b) THEN [score |-> 0, board |-> b]
    ELSE minimax_call_loop(
             b, depth, is_maximizing,
             SelectSeq([k \in 1..9 |-> k - 1], LAMBDA i : b[i] = None), 1,
             IF is_maximizing THEN NEG_INF ELSE POS_INF)

\* ai_hard.get_hard_move with the list it is given, its for loop (lines
\* 75-81) from entry k of `empty` on: [move, board], the position it returns
\* and the cells of the caller's board list at the return
RECURSIVE get_hard_move_call_loop(_, _, _, _, _)
get_hard_move_call_loop(b, empty, k, best_score, best_move) ==
    IF k > Len(empty) THEN [move |-> Some(best_move), board |-> b]
    ELSE CHOOSE ret \in {
             get_hard_move_call_loop(
                 [sub.board EXCEPT ![empty[k]] = None], empty, k + 1,
                 IF sub.score > best_score THEN sub.score ELSE best_score,
                 IF sub.score > best_score THEN empty[k] ELSE best_move)
             : sub \in { minimax_call([b EXCEPT ![empty[k]] = "O"],
                                      0, FALSE) } } : TRUE

\* ai_hard.get_hard_move with the list it is given
get_hard_move_call(b) ==
    LET empty == SelectSeq([k \in 1..9 |-> k - 1], LAMBDA i : b[i] = None)
    IN  IF empty = <<>> THEN [move |-> NoPos, board |-> b]
        ELSE get_hard_move_call_loop(b, empty, 1, NEG_INF, empty[1])

\* ai_hard._get_dynamic_depth
_get_dynamic_depth(b) ==
    LET empty == Cardinality({i \in Cells : b[i] = None})
    IN  IF empty >= 7 THEN 4 ELSE IF empty >= 5 THEN 5 ELSE 6

\* ai_hard._order_moves: sorted() by the index in _MOVE_PRIORITY.  The moves
\* are distinct cells, so the result lists them in the order of that table.
_order_moves(moves) ==
    SelectSeq(_MOVE_PRIORITY, LAMBDA m : \E k \in 1..Len(moves) : moves[k] = m)

\* ai_hard._board_key
_board_key(b, xm, om, is_maximizing) == <<b, xm, om, is_maximizing>>

\* ai_hard._get_available_moves_no_draw
_get_available_moves_no_draw(b, player, player_moves) ==
    LET empty == SelectSeq([k \in 1..9 |-> k - 1], LAMBDA i : b[i] = None)
        available ==
            IF /\ Len(player_moves) >= ai_hard_MAX_MARKS
               /\ \A k \in 1..Len(empty) : empty[k] # player_moves[1]
            THEN Append(empty, player_moves[1])
            ELSE empty
    IN  _order_moves(available)

\* ai_hard._heuristic_score.  The loop adds, for every combination without
\* a mark of the opponent, the number of the player's marks on it: the sum
\* is the number of pairs (combination, cell of it) of that kind.
_heuristic_score(b) ==
    LET W == ai_hard_WINNING_COMBINATIONS
        count(k, v) == Cardinality({j \in 1..3 : b[W[k][j]] = v})
        score(who, opponent) ==
            Cardinality({kj \in (1..Len(W)) \X (1..3) :
                            /\ b[W[kj[1]][kj[2]]] = who
                            /\ count(kj[1], opponent) = 0})
    IN  score("O", "X") - score("X", "O")

\* the depth test letting one more level through
depth_limit_reached_one_late(depth, max_depth) == depth > max_depth

\* `depth >= max_depth`, line 166
depth_limit_reached(depth, max_depth) == depth >= max_depth

\* `new_moves = player_moves`: the caller's list itself instead of a copy
list_copy_same_list(player_moves) ==
    [list |-> "player_moves", items |-> player_moves]

\* list(player_moves), lines 190 and 219: a new list object with the entries
\* of player_moves.  `list` says which list object new_moves is, so that the
\* pop and the append on it can be told from writes to player_moves.
list_copy(player_moves) == [list |-> "copy", items |-> player_moves]

\* ai_hard.minimax_no_draw, and its two for loops from entry k of
\* `available` on, up to `_tp_table[key] = best; return best`.  tp is
\* _tp_table at the call; the result is [score, tp, board, xm, om]: the
\* returned score, _tp_table, and the caller's board list and the lists it
\* passed as x_moves and o_moves at the return, and in `deepest` the
\* greatest value of `depth` among this invocation and the ones under it.
RECURSIVE minimax_no_draw(_, _, _, _, _, _, _, _, _)
RECURSIVE minimax_no_draw_loop(_, _, _, _, _, _, _, _, _, _, _, _, _, _)
minimax_no_draw_loop(b, depth, is_maximizing, xm, om, max_depth, alpha, beta, tp, available, k, best, key, deepest) ==
    IF k > Len(available)
    THEN [score |-> best, tp |-> (key :> best) @@ tp, board |-> b,
          xm |-> xm, om |-> om, deepest |-> deepest]
    ELSE
    LET pos == available[k]
        player == IF is_maximizing THEN "O" ELSE "X"
        player_moves == IF is_maximizing THEN om ELSE xm
        copy == list_copy(player_moves)
        evicts == Len(copy.items) >= ai_hard_MAX_MARKS
        new_moves == Append(IF evicts THEN Tail(copy.items) ELSE copy.items,
                            pos)
        b1 == IF evicts THEN [b EXCEPT ![player_moves[1]] = None] ELSE b
        b2 == [b1 EXCEPT ![pos] = player]
    IN  CHOOSE ret \in {
          LET b3 == [sub.board EXCEPT ![pos] = None]
              b4 == IF evicts THEN [b3 EXCEPT ![player_moves[1]] = player]
                    ELSE b3
              best1 == IF is_maximizing THEN Max2(best, sub.score)
                       ELSE Min2(best, sub.score)
              alpha1 == IF is_maximizing THEN Max2(alpha, best1) ELSE alpha
              beta1 == IF is_maximizing THEN beta ELSE Min2(beta, best1)
              \* the writes to new_moves reach player_moves only if the two
              \* are one list; the other list went to the call as it is
              xm1 == IF ~is_maximizing /\ copy.list = "copy" THEN xm
                     ELSE sub.xm
              om1 == IF is_maximizing /\ copy.list = "copy" THEN om
                     ELSE sub.om
          IN  IF beta1 <= alpha1
              THEN [score |-> best1, tp |-> (key :> best1) @@ sub.tp,
                    board |-> b4, xm |-> xm1, om |-> om1,
                    deepest |-> Max2(deepest, sub.deepest)]
              ELSE minimax_no_draw_loop(b4, depth, is_maximizing, xm1, om1,
                                        max_depth, alpha1, beta1, sub.tp,
                                        available, k + 1, best1, key,
                                        Max2(deepest, sub.deepest))
          : sub \in {
              IF check_winner(b2, player)
              THEN [score |-> IF is_maximizing THEN 10 - depth ELSE depth - 10,
                    tp |-> tp, board |-> b2,
                    xm |-> IF is_maximizing THEN xm ELSE new_moves,
                    om |-> IF is_maximizing THEN new_moves ELSE om,
                    deepest |-> depth]
              ELSE minimax_no_draw(b2, depth + 1, ~is_maximizing,
                                   IF is_maximizing THEN xm ELSE new_moves,
                                   IF is_maximizing THEN new_moves ELSE om,
                                   max_depth, alpha, beta, tp) } } : TRUE

minimax_no_draw(b, depth, is_maximizing, xm, om, max_depth, alpha, beta, tp) ==
    IF check_winner(b, "O")
    THEN [score |-> 10 - depth, tp |-> tp, board |-> b, xm |-> xm, om |-> om,
          deepest |-> depth]
    ELSE IF check_winner(b, "X")
    THEN [score |-> depth - 10, tp |-> tp, board |-> b, xm |-> xm, om |-> om,
          deepest |-> depth]
    ELSE IF depth_limit_reached(depth, max_depth)
    THEN [score |-> _heuristic_score(b), tp |-> tp, board |-> b,
          xm |-> xm, om |-> om, deepest |-> depth]
    ELSE
    LET key == _board_key(b, xm, om, is_maximizing)
        player == IF is_maximizing THEN "O" ELSE "X"
        player_moves == IF is_maximizing THEN om ELSE xm
        available == _get_available_moves_no_draw(b, player, player_moves)
    IN  IF key \in DOMAIN tp
        THEN [score |-> tp[key], tp |-> tp, board |-> b, xm |-> xm, om |-> om,
              deepest |-> depth]
        ELSE IF available = <<>>
        THEN [score |-> _heuristic_score(b), tp |-> tp, board |-> b,
              xm |-> xm, om |-> om, deepest |-> depth]
        ELSE minimax_no_draw_loop(
                 b, depth, is_maximizing, xm, om, max_depth, alpha, beta, tp,
                 available, 1, IF is_maximizing THEN NEG_INF ELSE POS_INF,
                 key, depth)

\* the fast-path loop testing each candidate with O's oldest mark left on
\* the board
get_hard_move_no_draw_fast_no_eviction(b, om, available, k) ==
    LET wins == {j \in k..Len(available) :
                    check_winner([b EXCEPT ![available[j]] = "O"], "O")}
    IN  IF wins = {} THEN [move |-> NoPos, board |-> b]
        ELSE [move |-> Some(available[CHOOSE j \in wins :
                                         \A i \in wins : j <= i]),
              board |-> b]

\* ai_hard.get_hard_move_no_draw, the fast-path loop from entry k of
\* `available` on: [move, board], the position it returns (<<>> when the loop
\* ends without a win) and the caller's board list afterwards
RECURSIVE get_hard_move_no_draw_fast(_, _, _, _)
get_hard_move_no_draw_fast(b, om, available, k) ==
    IF k > Len(available) THEN [move |-> NoPos, board |-> b]
    ELSE LET pos == available[k]
             evicts == Len(om) >= ai_hard_MAX_MARKS
             b1 == IF evicts THEN [b EXCEPT ![om[1]] = None] ELSE b
             b2 == [b1 EXCEPT ![pos] = "O"]
             won == check_winner(b2, "O")
             b3 == [b2 EXCEPT ![pos] = None]
             b4 == IF evicts THEN [b3 EXCEPT ![om[1]] = "O"] ELSE b3
         IN  IF won THEN [move |-> Some(pos), board |-> b4]
             ELSE get_hard_move_no_draw_fast(b4, om, available, k + 1)

\* ai_hard.get_hard_move_no_draw, the search loop from entry k of `available`
\* on.  The loop computes a score for every candidate and assigns neither
\* best_score nor best_move; it does not undo its writes to board.  observe
\* selects what is read off at the return: "move" the returned position,
\* "board" the caller's board list, "scores" the list of the scores computed,
\* "searched" whether the loop was entered, "tp" the dictionary _tp_table,
\* "depths" for each minimax_no_draw call of the loop the greatest depth an
\* invocation under it had.
RECURSIVE get_hard_move_no_draw_search(_, _, _, _, _, _, _, _, _, _, _, _, _, _)
get_hard_move_no_draw_search(b, xm, om, available, k, max_depth, best_score, best_move, alpha, beta, tp, scores, depths, observe) ==
    IF k > Len(available)
    THEN CASE observe = "move" -> Some(best_move)
           [] observe = "board" -> b
           [] observe = "scores" -> scores
           [] observe = "searched" -> TRUE
           [] observe = "tp" -> tp
           [] observe = "depths" -> depths
    ELSE LET pos == available[k]
             evicts == Len(om) >= ai_hard_MAX_MARKS
             new_o_moves == Append(IF evicts THEN Tail(om) ELSE om, pos)
             b1 == IF evicts THEN [b EXCEPT ![om[1]] = None] ELSE b
             b2 == [b1 EXCEPT ![pos] = "O"]
             won == check_winner(b2, "O")
             sub == IF won
                    THEN [score |-> 10, tp |-> tp, board |-> b2,
                          xm |-> xm, om |-> new_o_moves, deepest |-> 0]
                    ELSE minimax_no_draw(b2, 0, FALSE, xm, new_o_moves,
                                         max_depth, alpha, beta, tp)
         IN  IF observe \in {"move", "searched"}
             THEN get_hard_move_no_draw_search(
                      sub.board, sub.xm, om, available, k + 1, max_depth,
                      best_score, best_move, Max2(alpha, best_score), beta,
                      sub.tp, Append(scores, sub.score),
                      IF won THEN depths ELSE Append(depths, sub.deepest),
                      observe)
             ELSE \* the same call, the candidate's score computed first
                  CHOOSE ret \in { get_hard_move_no_draw_search(
                             s.board, s.xm, om, available, k + 1, max_depth,
                             best_score, best_move, Max2(alpha, best_score),
                             beta, s.tp, Append(scores, s.score),
                             IF won THEN depths ELSE Append(depths, s.deepest),
                             observe)
                         : s \in {sub} } : TRUE

\* _tp_table: dict = {}, the module's dictionary when the module is loaded
_tp_table == [key \in {} |-> 0]

\* get_hard_move_no_draw searching with the dictionary as the call found it
get_hard_move_no_draw_call_keeps_table(table_at_call, b, xm, om, observe) ==
    LET available == _get_available_moves_no_draw(b, "O", om)
        fast == get_hard_move_no_draw_fast(b, om, available, 1)
    IN  IF observe = "tp_start" THEN table_at_call
        ELSE IF available = <<>> \/ fast.move # NoPos
        THEN CASE observe = "move" -> fast.move
               [] observe = "board" -> fast.board
               [] observe = "scores" -> <<>>
               [] observe = "depths" -> <<>>
               [] observe = "searched" -> FALSE
               [] observe = "tp" -> table_at_call
        ELSE get_hard_move_no_draw_search(
                 fast.board, xm, om, available, 1,
                 _get_dynamic_depth(fast.board), NEG_INF, available[1],
                 NEG_INF, POS_INF, table_at_call, <<>>, <<>>, observe)

\* ai_hard.get_hard_move_no_draw called while the module's dictionary is
\* table_at_call, with what is read off at its return.  The call first
\* rebinds the dictionary to {} (line 254); "tp_start" reads the dictionary
\* right after that, "tp" the one the call leaves behind.  When the call
\* returns before its search loop, no score was computed and minimax_no_draw
\* was not called.
get_hard_move_no_draw_call(table_at_call, b, xm, om, observe) ==
    LET cleared == [key \in {} |-> 0]
        available == _get_available_moves_no_draw(b, "O", om)
        fast == get_hard_move_no_draw_fast(b, om, available, 1)
    IN  IF observe = "tp_start" THEN cleared
        ELSE IF available = <<>> \/ fast.move # NoPos
        THEN CASE observe = "move" -> fast.move
               [] observe = "board" -> fast.board
               [] observe = "scores" -> <<>>
               [] observe = "depths" -> <<>>
               [] observe = "searched" -> FALSE
               [] observe = "tp" -> cleared
        ELSE get_hard_move_no_draw_search(
                 fast.board, xm, om, available, 1,
                 _get_dynamic_depth(fast.board), NEG_INF, available[1],
                 NEG_INF, POS_INF, cleared, <<>>, <<>>, observe)

\* ai_hard.get_hard_move_no_draw, with what is read off at its return
get_hard_move_no_draw_observe(b, xm, om, observe) ==
    get_hard_move_no_draw_call(_tp_table, b, xm, om, observe)

\* ai_hard.get_hard_move_no_draw: the position it returns
get_hard_move_no_draw(b, xm, om) ==
    get_hard_move_no_draw_observe(b, xm, om, "move")

----------------------------------------------------------------------------
(* ai_easy.py.  random.choice may return any element of its list, so each  *)
(* of these operators is the SET of the values the function can return.    *)

\* [i for i in range(9) if board[i] is None]: the empty cells, lowest first
EmptyCells(b) == SelectSeq([k \in 1..9 |-> k - 1], LAMBDA i : b[i] = None)

\* the values of the list l
Elements(l) == {l[k] : k \in 1..Len(l)}

\* random.choice(l) if l else None
RandomChoice(l) == IF l = <<>> THEN {NoPos} ELSE {Some(i) : i \in Elements(l)}

\* get_easy_move choosing among the cells that do not hold O
get_easy_move_any_cell_without_O(b) ==
    RandomChoice(SelectSeq([k \in 1..9 |-> k - 1], LAMBDA i : b[i] # "O"))

\* ai_easy.get_easy_move
get_easy_move(b) == RandomChoice(EmptyCells(b))

\* get_easy_move_no_draw offering O's oldest cell below 3 marks as well
get_easy_move_no_draw_any_oldest(b, xm, om) ==
    LET empty == EmptyCells(b)
    IN  RandomChoice(IF Len(om) >= 1 /\ b[om[1]] = "O"
                     THEN Append(empty, om[1]) ELSE empty)

\* ai_easy.get_easy_move_no_draw
get_easy_move_no_draw(b, xm, om) ==
    LET empty == EmptyCells(b)
    IN  RandomChoice(IF Len(om) >= 3 /\ b[om[1]] = "O"
                     THEN Append(empty, om[1]) ELSE empty)

----------------------------------------------------------------------------
(* ai_medium.py                                                            *)

ai_medium_WINNING_COMBINATIONS ==
    << <<0, 1, 2>>, <<3, 4, 5>>, <<6, 7, 8>>,
       <<0, 3, 6>>, <<1, 4, 7>>, <<2, 5, 8>>,
       <<0, 4, 8>>, <<2, 4, 6>> >>

\* ai_medium.find_winning_move: the empty cell of the first combination that
\* holds two marks of player and one empty cell
find_winning_move(b, player) ==
    LET W == ai_medium_WINNING_COMBINATIONS
        count(k, v) == Cardinality({j \in 1..3 : b[W[k][j]] = v})
        hits == {k \in 1..Len(W) : count(k, player) = 2 /\ count(k, None) = 1}
    IN  IF hits = {} THEN NoPos
        ELSE LET k == CHOOSE x \in hits : \A y \in hits : x <= y
                 j == CHOOSE x \in 1..3 : b[W[k][x]] = None
             IN  Some(W[k][j])

\* get_medium_move trying the block before the win
get_medium_move_block_first(b) ==
    LET empty == EmptyCells(b)
        win_move == find_winning_move(b, "O")
        block_move == find_winning_move(b, "X")
    IN  IF empty = <<>> THEN {NoPos}
        ELSE IF block_move # NoPos THEN {block_move}
        ELSE IF win_move # NoPos THEN {win_move}
        ELSE RandomChoice(empty)

\* ai_medium.get_medium_move
get_medium_move(b) ==
    LET empty == EmptyCells(b)
        win_move == find_winning_move(b, "O")
        block_move == find_winning_move(b, "X")
    IN  IF empty = <<>> THEN {NoPos}
        ELSE IF win_move # NoPos THEN {win_move}
        ELSE IF block_move # NoPos THEN {block_move}
        ELSE RandomChoice(empty)

\* _simulate_no_draw_board leaving the oldest mark on the board
_simulate_no_draw_board_no_removal(b, player, position, player_moves) ==
    [b EXCEPT ![position] = player]

\* ai_medium._simulate_no_draw_board
_simulate_no_draw_board(b, player, position, player_moves) ==
    LET sim_board == IF Len(player_moves) >= 3
                     THEN [b EXCEPT ![player_moves[1]] = None]
                     ELSE b
    IN  [sim_board EXCEPT ![position] = player]

\* the list `available` of ai_medium: the empty cells, then the player's
\* oldest cell when the history holds 3 entries and the cell is not empty
ai_medium_available(b, player_moves) ==
    LET empty == EmptyCells(b)
    IN  IF Len(player_moves) >= 3 /\ player_moves[1] \notin Elements(empty)
        THEN Append(empty, player_moves[1])
        ELSE empty

\* ai_medium.find_winning_move_no_draw: the first position of `available`
\* whose simulated board holds a line of player
find_winning_move_no_draw(b, player, player_moves) ==
    LET available == ai_medium_available(b, player_moves)
        wins(pos) ==
            LET sim_board == _simulate_no_draw_board(b, player, pos, player_moves)
            IN  \E k \in 1..Len(ai_medium_WINNING_COMBINATIONS) :
                    \A j \in 1..3 :
                        sim_board[ai_medium_WINNING_COMBINATIONS[k][j]] = player
        hits == {k \in 1..Len(available) : wins(available[k])}
    IN  IF hits = {} THEN NoPos
        ELSE Some(available[CHOOSE x \in hits : \A y \in hits : x <= y])

\* get_medium_move_no_draw without the block step
get_medium_move_no_draw_win_or_random(b, xm, om) ==
    LET available == ai_medium_available(b, om)
        win_move == find_winning_move_no_draw(b, "O", om)
    IN  IF available = <<>> THEN {NoPos}
        ELSE IF win_move # NoPos THEN {win_move}
        ELSE RandomChoice(available)

\* ai_medium.get_medium_move_no_draw
get_medium_move_no_draw(b, xm, om) ==
    LET available == ai_medium_available(b, om)
        win_move == find_winning_move_no_draw(b, "O", om)
        block_move == find_winning_move_no_draw(b, "X", xm)
    IN  IF available = <<>> THEN {NoPos}
        ELSE IF win_move # NoPos THEN {win_move}
        ELSE IF block_move # NoPos /\ block_move[1] \in Elements(available)
        THEN {block_move}
        ELSE RandomChoice(available)

----------------------------------------------------------------------------
(* gui.py: after constructing or resetting the engine the orchestrator may *)
(* hand the first move to the computer.                                    *)

\* TicTacToeGUI._start_game / _restart_game: self.game.current_player = 'O'
ComputerStarts ==
    /\ result = "none"
    /\ current_player = "X"
    /\ current_player' = "O"
    /\ UNCHANGED <<mode, board, game_over, winner, x_moves, o_moves, result,
                   last_position, removed_pos>>
    /\ UNCHANGED gui

\* TicTacToeGUI._on_cell_click: the human's click on a cell while it is X's
\* turn goes to make_move; in the No-Draw game a click on an occupied cell
\* other than X's oldest mark is dropped before it gets there
PlayoutXMove(position) ==
    /\ ~game_over
    /\ current_player = "X"
    /\ ~(/\ mode = "no_draw"
          /\ board[position] # None
          /\ Some(position) # (IF Len(x_moves) >= MAX_MARKS
                               THEN Some(x_moves[1]) ELSE NoPos))
    /\ MakeMove(position)

\* TicTacToeGUI._execute_ai_move, Standard game at difficulty HARD, run on
\* O's turn: the move get_hard_move returns on the board copy is applied
PlayoutHardMove ==
    /\ ~game_over
    /\ current_player = "O"
    /\ \E move \in {get_hard_move(board)} :
           IF move # NoPos THEN MakeMove(move[1])
           ELSE UNCHANGED vars

Difficulties == {"easy", "medium", "hard"}

\* TicTacToeGUI._execute_ai_move, the dispatch on the game mode and on the
\* difficulty: the values its local `move` can get for the arguments b, xm
\* and om
AIMoves(difficulty, b, xm, om) ==
    IF mode = "no_draw"
    THEN CASE difficulty = "easy" -> get_easy_move_no_draw(b, xm, om)
           [] difficulty = "medium" -> get_medium_move_no_draw(b, xm, om)
           [] OTHER -> {get_hard_move_no_draw(b, xm, om)}
    ELSE CASE difficulty = "easy" -> get_easy_move(b)
           [] difficulty = "medium" -> get_medium_move(b)
           [] OTHER -> {get_hard_move(b)}

\* The cells of the list b that an AI was called with, at its return.
\* ai_easy and ai_medium only read the list (ai_medium simulates on
\* board.copy()); ai_hard.minimax and get_hard_move undo every trial
\* placement on an empty cell (lines 53-55, 60-62, 76-78);
\* get_hard_move_no_draw writes to it.
AIBoardAfter(difficulty, b, xm, om) ==
    IF mode = "no_draw" /\ difficulty = "hard"
    THEN get_hard_move_no_draw_observe(b, xm, om, "board")
    ELSE b

\* self.game.board right after the AI call of _execute_ai_move returned:
\* the AI's writes reach it only if the list handed to the AI is self.board
BoardAfterAICall(difficulty) ==
    LET snapshot == get_board_copy
    IN  IF snapshot.list = "self.board"
        THEN AIBoardAfter(difficulty, snapshot.cells, x_moves, o_moves)
        ELSE board

\* the engine right after the AI call returned: the AI is given no other
\* reference to it (xm and om are list(...) copies the AIs only read)
EngineAfterAICall(difficulty) ==
    <<BoardAfterAICall(difficulty), current_player, game_over, winner,
      x_moves, o_moves>>

\* TicTacToeGUI._execute_ai_move at the given difficulty, run on O's turn:
\* the AI is called on copies of the board and of the histories, and the
\* position it returns, unless None, goes to make_move
ExecuteAIMove(difficulty) ==
    /\ ~game_over
    /\ current_player = "O"
    /\ \E move \in AIMoves(difficulty, get_board_copy.cells, x_moves, o_moves) :
           IF move # NoPos THEN MakeMove(move[1])
           ELSE UNCHANGED vars

----------------------------------------------------------------------------
(* gui.py: the event handlers of the game screen.  Tk runs one handler at  *)
(* a time, to its end; between two handlers any other may run.             *)

\* How many _execute_ai_move callbacks can wait in Tk's queue at once.
MaxCallbacks == 2

\* every callback waiting when Restart is pressed was scheduled in a game
\* that is no longer the one on the screen
Earlier(queue) == [k \in 1..Len(queue) |-> "earlier_game"]

\* TicTacToeGUI._make_ai_move, queue being what is already scheduled:
\* root.after's identifier is dropped, nothing can cancel the callback
_make_ai_move(queue) ==
    /\ Len(queue) < MaxCallbacks
    /\ ai_thinking' = TRUE
    /\ after_queue' = Append(queue, "this_game")

\* TicTacToeGUI._on_cell_click(position)
_on_cell_click(position) ==
    IF ai_thinking \/ game_over \/ current_player # "X"
    THEN UNCHANGED vars
    ELSE IF /\ mode = "no_draw"
            /\ board[position] # None
            /\ Some(position) # get_oldest_mark("X")
    THEN UNCHANGED vars
    ELSE /\ game_make_move(position)
         /\ IF result' = "True" /\ ~game_over'
            THEN _make_ai_move(after_queue)
            ELSE UNCHANGED gui

\* TicTacToeGUI._execute_ai_move at the given difficulty, run by Tk when the
\* oldest scheduled callback falls due: whatever the AI returns for the
\* board as it is now goes to make_move, whoever's turn it is
_execute_ai_move(difficulty) ==
    /\ after_queue # <<>>
    /\ \E move \in AIMoves(difficulty, get_board_copy.cells, x_moves, o_moves) :
           IF move # NoPos THEN game_make_move(move[1])
           ELSE UNCHANGED <<mode, board, current_player, game_over, winner,
                            x_moves, o_moves, result, last_position,
                            removed_pos>>
    /\ ai_thinking' = FALSE
    /\ after_queue' = Tail(after_queue)

\* TicTacToeGUI._restart_game: after_cancel is called on animation_id only
\* (the _animate_thinking timer), the scheduled _execute_ai_move stays
_restart_game ==
    \E computer_starts \in BOOLEAN :
        /\ reset_leaving(IF computer_starts THEN "O" ELSE "X")
        /\ IF computer_starts
           THEN _make_ai_move(Earlier(after_queue))
           ELSE /\ ai_thinking' = FALSE
                /\ after_queue' = Earlier(after_queue)

----------------------------------------------------------------------------
(* Specifications                                                          *)

\* TicTacToeGame.__init__ / NoDrawGame.__init__, in an orchestrator that
\* has scheduled nothing (TicTacToeGUI.__init__: self.ai_thinking = False)
InitEngine ==
    /\ board = EmptyBoard
    /\ current_player = "X"
    /\ game_over = FALSE
    /\ winner = None
    /\ x_moves = <<>>
    /\ o_moves = <<>>
    /\ result = "none"
    /\ last_position = NoPos
    /\ removed_pos = NoPos
    /\ ai_thinking = FALSE
    /\ after_queue = <<>>

Init == mode \in {"standard", "no_draw"} /\ InitEngine
InitStandard == mode = "standard" /\ InitEngine
InitNoDraw == mode = "no_draw" /\ InitEngine

Next ==
    \/ Reset
    \/ ComputerStarts
    \/ \E position \in Positions : MakeMove(position)

\* both engines
Spec == Init /\ [][Next]_vars
\* the Standard engine
SpecStandard == InitStandard /\ [][Next]_vars
\* the No-Draw engine
SpecNoDraw == InitNoDraw /\ [][Next]_vars

\* Playouts of the Standard game, either side moving first: X plays any
\* cell, every O move is get_hard_move's
NextHardPlayout ==
    \/ ComputerStarts
    \/ \E position \in Cells : PlayoutXMove(position)
    \/ PlayoutHardMove

SpecHardPlayout == InitStandard /\ [][NextHardPlayout]_vars

\* Playouts of the No-Draw game against the hard AI, either side moving
\* first: X clicks any cell, every O move is get_hard_move_no_draw's
NextHardNoDrawPlayout ==
    \/ ComputerStarts
    \/ \E position \in Cells : PlayoutXMove(position)
    \/ ExecuteAIMove("hard")

SpecHardNoDrawPlayout == InitNoDraw /\ [][NextHardNoDrawPlayout]_vars

\* Playouts of either game against the easy AI, either side moving first:
\* X clicks any cell, every O move is one the easy AI can return
NextEasyPlayout ==
    \/ ComputerStarts
    \/ \E position \in Cells : PlayoutXMove(position)
    \/ ExecuteAIMove("easy")

SpecEasyPlayout == Init /\ [][NextEasyPlayout]_vars

\* The unit tests build boards by hand on a fresh engine: game.board[pos] =
\* player, any cell, any mark, in any order.
SetCell(pos, player) ==
    /\ board' = [board EXCEPT ![pos] = player]
    /\ UNCHANGED <<mode, current_player, game_over, winner, x_moves, o_moves,
                   result, last_position, removed_pos>>
    /\ UNCHANGED gui

NextBoards == \E pos \in Cells, player \in Marks : SetCell(pos, player)

\* every board over {X, O, None}, for the functions of a bare board
SpecBoards == InitStandard /\ [][NextBoards]_vars

\* TicTacToeGUI._start_game: the engine is constructed and, when the
\* computer starts, handed to the computer by _make_ai_move
InitOrchestrator ==
    /\ mode \in {"standard", "no_draw"}
    /\ board = EmptyBoard
    /\ game_over = FALSE
    /\ winner = None
    /\ x_moves = <<>>
    /\ o_moves = <<>>
    /\ result = "none"
    /\ last_position = NoPos
    /\ removed_pos = NoPos
    /\ \E computer_starts \in BOOLEAN :
           /\ current_player = (IF computer_starts THEN "O" ELSE "X")
           /\ ai_thinking = computer_starts
           /\ after_queue = (IF computer_starts THEN <<"this_game">>
                             ELSE <<>>)

\* The game screen at difficulty EASY: cell clicks, Restart presses and the
\* scheduled callbacks, in any order
NextOrchestrator ==
    \/ \E position \in Cells : _on_cell_click(position)
    \/ _restart_game
    \/ _execute_ai_move("easy")

SpecOrchestrator == InitOrchestrator /\ [][NextOrchestrator]_vars

\* Tk's event loop runs a callback once its delay has passed: a scheduled
\* _execute_ai_move does not wait for ever
SpecOrchestratorLive ==
    SpecOrchestrator /\ WF_vars(_execute_ai_move("easy"))

TypeOK ==
    /\ mode \in {"standard", "no_draw"}
    /\ board \in [Cells -> Marks \cup {None}]
    /\ current_player \in Marks
    /\ game_over \in BOOLEAN
    /\ winner \in Marks \cup {None}
    /\ result \in {"none", "True", "False"}
    /\ last_position \in {NoPos} \cup {Some(p) : p \in Positions}
    /\ removed_pos \in {NoPos} \cup {Some(c) : c \in Cells}

----------------------------------------------------------------------------
(* Vocabulary of the properties, independent of the code's helpers         *)

Lines ==
    { {0, 1, 2}, {3, 4, 5}, {6, 7, 8},
      {0, 3, 6}, {1, 4, 7}, {2, 5, 8},
      {0, 4, 8}, {2, 4, 6} }

HoldsLine(b, m) == \E L \in Lines : \A i \in L : b[i] = m
Count(b, m) == Cardinality({i \in Cells : b[i] = m})
Full(b) == \A i \in Cells : b[i] \in Marks

----------------------------------------------------------------------------
\* C1: in every playout of the Standard game, whichever side moves first,
\* where X plays arbitrary moves and every O move is the cell get_hard_move
\* returns on the current board, X never holds a complete line and the game
\* never ends with winner X: a finished game is an O win or a draw.
C1_HardNeverLoses ==
    /\ ~HoldsLine(board, "X")
    /\ winner # "X"
    /\ game_over => \/ winner = "O" /\ HoldsLine(board, "O")
                    \/ winner = None /\ Full(board)

\* a playout that X opened and played to the end, finished as a draw
C1_Witness ==
    /\ game_over
    /\ winner = None
    /\ Full(board)
    /\ Count(board, "X") = 5
    /\ Count(board, "O") = 4

Abs(n) == IF n < 0 THEN 0 - n ELSE n
History(who) == IF who = "X" THEN x_moves ELSE o_moves
HistoryAfter(who) == IF who = "X" THEN x_moves' ELSE o_moves'
\* the cells that hold a mark before the step and are empty after it
Vacated == {i \in Cells : board[i] # None /\ board'[i] = None}
\* the step is a make_move call that returned True; Placed is its position
AcceptedMove == result' = "True"
Placed == last_position'[1]
\* the step is a make_move call that returned False
RejectedMove == result' = "False"

----------------------------------------------------------------------------
\* C2: in the Standard engine an accepted make_move(p) places the mover's
\* mark at p; then, if the mover holds a complete line, game_over becomes
\* true and winner is the mover (also when p was the last empty cell);
\* otherwise, if no cell is empty, game_over becomes true with winner None;
\* otherwise game_over stays false and current_player switches.
C2_StandardMakeMove ==
    [][AcceptedMove =>
          /\ Placed \in Cells
          /\ board[Placed] = None
          /\ board' = [board EXCEPT ![Placed] = current_player]
          /\ IF HoldsLine(board', current_player)
             THEN game_over' /\ winner' = current_player
             ELSE IF Full(board')
             THEN game_over' /\ winner' = None
             ELSE /\ ~game_over'
                  /\ winner' = None
                  /\ current_player' = Other(current_player)]_vars

\* the move that filled the last empty cell completed a line
C2_Witness ==
    /\ result = "True"
    /\ game_over
    /\ Full(board)
    /\ winner \in Marks
    /\ HoldsLine(board, winner)

\* C3: in the Standard engine is_valid_move(p) is true exactly when the game
\* is not over, 0 <= p <= 8 and board[p] is empty; occupied cells,
\* out-of-range indices and every position after game over are invalid.
C3_StandardIsValidMove ==
    /\ \A p \in Positions :
          TicTacToeGame_is_valid_move(p)
              <=> (~game_over /\ p \in Cells /\ board[p] = None)
    /\ \A p \in Cells : board[p] # None => ~TicTacToeGame_is_valid_move(p)
    /\ \A p \in Positions \ Cells : ~TicTacToeGame_is_valid_move(p)
    /\ game_over => \A p \in Positions : ~TicTacToeGame_is_valid_move(p)

\* the game is over and cells are still empty
C3_Witness ==
    /\ mode = "standard"
    /\ game_over
    /\ \E p \in Cells : board[p] = None
    /\ \E p \in Cells : board[p] # None

\* C4: in the No-Draw engine is_valid_move(p) is true exactly when the game
\* is not over, 0 <= p <= 8 and either board[p] is empty or board[p] holds
\* the current player's mark, the current player's history has 3 entries and
\* p is its first entry; a cell holding the opponent's mark is never valid,
\* also when it is the opponent's oldest mark.
C4_NoDrawIsValidMove ==
    /\ \A p \in Positions :
          NoDrawGame_is_valid_move(p)
              <=> /\ ~game_over
                  /\ p \in Cells
                  /\ \/ board[p] = None
                     \/ /\ board[p] = current_player
                        /\ Len(History(current_player)) = 3
                        /\ History(current_player)[1] = p
    /\ \A p \in Cells :
          board[p] = Other(current_player) => ~NoDrawGame_is_valid_move(p)

\* both players are at capacity and the game goes on: the mover's oldest
\* cell is valid, the opponent's oldest cell is not
C4_Witness ==
    /\ mode = "no_draw"
    /\ ~game_over
    /\ Len(x_moves) = 3
    /\ Len(o_moves) = 3
    /\ NoDrawGame_is_valid_move(History(current_player)[1])
    /\ ~NoDrawGame_is_valid_move(History(Other(current_player))[1])

\* C5: in both engines make_move(p) with is_valid_move(p) false returns
\* False and leaves board, current_player, game_over, winner and both
\* histories as they were: a call returns True only for a position that
\* is_valid_move accepts, and a call that returns False changes nothing.
C5_RejectedMoveChangesNothing ==
    [][/\ AcceptedMove => is_valid_move(Placed)
       /\ RejectedMove =>
              /\ board' = board
              /\ current_player' = current_player
              /\ game_over' = game_over
              /\ winner' = winner
              /\ x_moves' = x_moves
              /\ o_moves' = o_moves]_vars

\* a call was rejected in the middle of a No-Draw game, the mover at capacity
C5_Witness ==
    /\ mode = "no_draw"
    /\ result = "False"
    /\ ~game_over
    /\ Len(History(current_player)) = 3

\* C6: in both engines, once game_over is true every make_move call is
\* rejected and board, winner, current_player and the histories stay as they
\* are; game_over becomes false again only through reset().
C6_TerminalAbsorbing ==
    [][game_over =>
          /\ ~AcceptedMove
          /\ game_over' => UNCHANGED engine
          /\ ~game_over' => Reset]_vars

\* a call made after the end of the game was rejected
C6_Witness ==
    /\ game_over
    /\ result = "False"
    /\ winner \in Marks

\* C7: in the Standard engine current_player switches after each accepted
\* move that does not end the game and does not change on a rejected move,
\* and in every reachable state the numbers of X marks and of O marks differ
\* by at most 1.
C7_Alternation ==
    /\ [](Abs(Count(board, "X") - Count(board, "O")) <= 1)
    /\ [][/\ (AcceptedMove /\ ~game_over')
                 => current_player' = Other(current_player)
          /\ RejectedMove => current_player' = current_player]_vars

\* O opened the game and has just made its third move
C7_Witness ==
    /\ mode = "standard"
    /\ result = "True"
    /\ ~game_over
    /\ current_player = "X"
    /\ Count(board, "O") = 3
    /\ Count(board, "X") = 2

\* C8: in every reachable state of the No-Draw engine each player's history
\* has at most 3 entries and the number of that player's marks on the board
\* is at most 3 and at most the length of that player's history.
C8_AtMostThreeMarks ==
    \A who \in Marks :
        /\ Len(History(who)) <= 3
        /\ Count(board, who) <= 3
        /\ Count(board, who) <= Len(History(who))

\* both players hold 3 marks after a move that evicted one
C8_Witness ==
    /\ mode = "no_draw"
    /\ removed_pos # NoPos
    /\ Count(board, "X") = 3
    /\ Count(board, "O") = 3

\* C9: in the No-Draw engine an accepted move at p by a player whose history
\* is [a, b, c] vacates exactly cell a and leaves that player's history equal
\* to [b, c, p]; an accepted move by a player with fewer than 3 entries
\* vacates no cell and appends p to the history.
C9_FifoEviction ==
    [][AcceptedMove =>
          LET h == History(current_player)
          IN  IF Len(h) = 3
              THEN /\ HistoryAfter(current_player) = <<h[2], h[3], Placed>>
                   /\ removed_pos' = Some(h[1])
                   /\ Vacated = {h[1]} \ {Placed}
                   /\ board'[Placed] = current_player
              ELSE /\ Len(h) < 3
                   /\ HistoryAfter(current_player) = Append(h, Placed)
                   /\ removed_pos' = NoPos
                   /\ Vacated = {}
                   /\ board'[Placed] = current_player]_vars

\* the last move evicted a mark, the vacated cell is empty, and the player
\* who made it holds 3 marks again
C9_Witness ==
    /\ mode = "no_draw"
    /\ result = "True"
    /\ ~game_over
    /\ removed_pos # NoPos
    /\ board[removed_pos[1]] = None
    /\ Len(History(Other(current_player))) = 3
    /\ Count(board, Other(current_player)) = 3

\* C10: in every reachable state of the No-Draw engine game_over implies
\* that winner is X or O: the No-Draw game never ends in a draw.
C10_NoDrawNeverDraws ==
    game_over => winner \in Marks /\ HoldsLine(board, winner)

\* a No-Draw game won by a move that evicted the winner's oldest mark
C10_Witness ==
    /\ mode = "no_draw"
    /\ game_over
    /\ winner \in Marks
    /\ removed_pos # NoPos

\* C11: in every reachable state of the No-Draw engine at most 6 cells are
\* occupied; where the game is not over at least 3 cells are empty,
\* get_valid_moves() is not empty and the player to move has a position that
\* make_move accepts.
C11_NoDrawNeverStuck ==
    /\ Count(board, "X") + Count(board, "O") <= 6
    /\ ~game_over =>
          /\ Count(board, None) >= 3
          /\ get_valid_moves # {}
          /\ \E position \in Cells : NoDrawGame_is_valid_move(position)

\* an unfinished No-Draw game with 6 occupied cells, the last move an eviction
C11_Witness ==
    /\ mode = "no_draw"
    /\ ~game_over
    /\ removed_pos # NoPos
    /\ Count(board, "X") + Count(board, "O") = 6
    /\ Count(board, None) = 3

\* C12: in both engines reset(), after any sequence of accepted and rejected
\* moves and also after the game has ended, yields exactly the initial state:
\* 9 empty cells, current_player X, game_over false, winner None and, in the
\* No-Draw engine, both histories empty.
C12_ResetRestoresInitialState ==
    [][(result' = "none" /\ ~ComputerStarts) =>
          /\ board' = EmptyBoard
          /\ current_player' = "X"
          /\ ~game_over'
          /\ winner' = None
          /\ x_moves' = <<>>
          /\ o_moves' = <<>>]_vars

\* the No-Draw engine right after a reset() that followed a move which had
\* evicted a mark
C12_Witness ==
    /\ mode = "no_draw"
    /\ result = "none"
    /\ removed_pos # NoPos
    /\ last_position # NoPos
    /\ board = EmptyBoard
    /\ x_moves = <<>>
    /\ current_player = "X"

\* the board that holds mark m on the cells of line L and nothing elsewhere
LineBoard(L, m) == [i \in Cells |-> IF i \in L THEN m ELSE None]

\* C13: on every board, for either mark m, check_winner (the engine's and
\* ai_hard's) reports a win for m exactly when some one of the 8 lines has
\* all three cells equal to m; in particular on the board holding m on one
\* line and nothing elsewhere it reports a win for m and none for the other
\* mark.
C13_CheckWinner ==
    \A m \in Marks :
        /\ TicTacToeGame_check_winner(board, m) <=> HoldsLine(board, m)
        /\ check_winner(board, m) <=> HoldsLine(board, m)
        /\ \A L \in Lines :
              board = LineBoard(L, m) =>
                  /\ TicTacToeGame_check_winner(board, m)
                  /\ check_winner(board, m)
                  /\ ~TicTacToeGame_check_winner(board, Other(m))
                  /\ ~check_winner(board, Other(m))

\* the board with O on the diagonal 2-4-6 and nothing else
C13_Witness ==
    /\ board = LineBoard({2, 4, 6}, "O")
    /\ TicTacToeGame_check_winner(board, "O")
    /\ check_winner(board, "O")

\* C14: in every reachable state of either engine in which the game is not
\* over and it is O's turn, every position that the easy, the medium or the
\* hard AI of that game can return on the engine's snapshot is not None and
\* is one the engine accepts.
C14_AIMoveAccepted ==
    (~game_over /\ current_player = "O") =>
        \A difficulty \in Difficulties :
            \A move \in AIMoves(difficulty, board, x_moves, o_moves) :
                /\ move # NoPos
                /\ is_valid_move(move[1])

\* a No-Draw game goes on after the AI returned the cell of O's oldest mark
\* and the engine accepted it
C14_Witness ==
    /\ mode = "no_draw"
    /\ result = "True"
    /\ ~game_over
    /\ current_player = "X"
    /\ removed_pos # NoPos
    /\ removed_pos = last_position

CompletingCells(b, m) ==
    {c \in Cells : b[c] = None /\ HoldsLine([b EXCEPT ![c] = m], m)}

XThreatens ==
    /\ mode = "standard"
    /\ ~game_over
    /\ current_player = "O"
    /\ CompletingCells(board, "O") = {}
    /\ CompletingCells(board, "X") # {}

\* C17 as stated: on every Standard board where O has no cell that completes
\* an O line and X has at least one cell that completes an X line,
\* get_hard_move returns a cell at which X would complete a line.
C17_BlocksEveryThreat ==
    XThreatens =>
        get_hard_move(board) \in {Some(c) : c \in CompletingCells(board, "X")}

\* C17: on every Standard board where O has no cell that completes an O line
\* and X has exactly one cell that completes an X line, get_hard_move returns
\* that cell.
C17_BlocksSingleThreat ==
    (XThreatens /\ Cardinality(CompletingCells(board, "X")) = 1) =>
        get_hard_move(board) \in {Some(c) : c \in CompletingCells(board, "X")}

\* X's single threat is at a cell that is not the lowest empty one, and
\* get_hard_move returns it
C17_Witness ==
    /\ XThreatens
    /\ result = "True"
    /\ Cardinality(CompletingCells(board, "X")) = 1
    /\ \E c \in CompletingCells(board, "X") :
          /\ \E d \in Cells : d < c /\ board[d] = None
          /\ get_hard_move(board) = Some(c)

\* No-Draw moves, told from the rules: with history h the mover may take an
\* empty cell or, holding 3 marks, the cell of the oldest one; the oldest
\* mark, if there are 3, goes before the new one is set
Candidates(b, h) ==
    {c \in Cells : b[c] = None} \cup (IF Len(h) >= 3 THEN {h[1]} ELSE {})
PlayAt(b, who, h, c) ==
    IF Len(h) >= 3 THEN [b EXCEPT ![h[1]] = None, ![c] = who]
    ELSE [b EXCEPT ![c] = who]
HistoryWith(h, c) == Append(IF Len(h) >= 3 THEN Tail(h) ELSE h, c)

\* an unfinished No-Draw game with O to move
NoDrawOToMove == mode = "no_draw" /\ ~game_over /\ current_player = "O"

\* the recursive scorer on O's candidate c in the current state: 10 for a
\* move that completes an O line, else minimax_no_draw on the position after
\* the move, X to answer, with the depth limit of the current board, the
\* full window and an empty table
CandidateScore(c) ==
    LET b == PlayAt(board, "O", o_moves, c)
    IN  IF HoldsLine(b, "O") THEN 10
        ELSE minimax_no_draw(b, 0, FALSE, x_moves, HistoryWith(o_moves, c),
                             _get_dynamic_depth(board), NEG_INF, POS_INF,
                             [key \in {} |-> 0]).score

\* C18: get_hard_move_no_draw evaluates every candidate for O with the
\* recursive scorer and returns the candidate whose score is the maximum over
\* all candidates, not merely the first candidate in move order.
C18_ReturnsBestScored ==
    NoDrawOToMove =>
        \A move \in {get_hard_move_no_draw(board, x_moves, o_moves)} :
            /\ move # NoPos
            /\ \A best \in {CandidateScore(move[1])} :
                  \A c \in Candidates(board, o_moves) :
                      best >= CandidateScore(c)

\* center-corners-edges order on cells: the center first, then the corners,
\* then the edges, each group by increasing index
CellGroup(c) == IF c = 4 THEN 0 ELSE IF c \in {0, 2, 6, 8} THEN 1 ELSE 2
ComesBefore(c, d) ==
    CellGroup(c) < CellGroup(d) \/ (CellGroup(c) = CellGroup(d) /\ c < d)

\* O's candidates that complete an O line once O's oldest mark, if O holds
\* 3, is gone and the candidate is marked
WinningCandidates ==
    {c \in Candidates(board, o_moves) :
        HoldsLine(PlayAt(board, "O", o_moves, c), "O")}

\* C19: whenever some candidate for O completes an O line after O's oldest
\* mark is evicted (at capacity) and the candidate is marked,
\* get_hard_move_no_draw returns the first such candidate in
\* center-corners-edges order without running the search, make_move accepts
\* that position, and the make_move call that takes it ends the game with
\* winner O.
C19_TakesImmediateWin ==
    (NoDrawOToMove /\ WinningCandidates # {}) =>
        \E win \in WinningCandidates :
            /\ \A c \in WinningCandidates : c = win \/ ComesBefore(win, c)
            /\ get_hard_move_no_draw(board, x_moves, o_moves) = Some(win)
            /\ ~get_hard_move_no_draw_observe(board, x_moves, o_moves,
                                              "searched")
            /\ ENABLED (MakeMove(win) /\ result' = "True")
            /\ ~ENABLED (MakeMove(win) /\ ~(game_over' /\ winner' = "O"))

\* O holds 3 marks that make no line, the win takes the eviction of the
\* oldest one, the cell is neither the first candidate in move order nor the
\* lowest empty cell, and get_hard_move_no_draw returns it
C19_Witness ==
    /\ NoDrawOToMove
    /\ Len(o_moves) = 3
    /\ \E win \in WinningCandidates :
          /\ get_hard_move_no_draw(board, x_moves, o_moves) = Some(win)
          /\ \E c \in Candidates(board, o_moves) : ComesBefore(c, win)
          /\ \E c \in Cells : c < win /\ board[c] = None

\* X, holding history xm on board b, has a move that completes an X line
XWinsNext(b, xm) ==
    \E c \in Candidates(b, xm) : HoldsLine(PlayAt(b, "X", xm, c), "X")

\* O's candidates that leave X without a move completing an X line
BlockingCandidates ==
    {c \in Candidates(board, o_moves) :
        ~XWinsNext(PlayAt(board, "O", o_moves, c), x_moves)}

\* C20: in every No-Draw state reachable with O to move in which O has no
\* immediately winning candidate and X has a move that would complete an X
\* line on X's next turn, get_hard_move_no_draw returns a candidate after
\* which X has no immediately winning move, whenever such a candidate exists.
C20_BlocksPlayerWin ==
    (/\ NoDrawOToMove
     /\ WinningCandidates = {}
     /\ XWinsNext(board, x_moves)
     /\ BlockingCandidates # {}) =>
        get_hard_move_no_draw(board, x_moves, o_moves)
            \in {Some(c) : c \in BlockingCandidates}

\* C21: get_hard_move_no_draw is side-effect-free on its arguments: when it
\* returns, on the fast path and on the search path, the board list passed
\* in holds the same 9 values as at call time (the history lists are only
\* read: the function works on list(o_moves) copies).
C21_BoardArgumentRestored ==
    NoDrawOToMove =>
        get_hard_move_no_draw_observe(board, x_moves, o_moves, "board") = board

\* the 8 winning lines in the order rows, columns, diagonals
LineOrder ==
    << <<0, 1, 2>>, <<3, 4, 5>>, <<6, 7, 8>>,
       <<0, 3, 6>>, <<1, 4, 7>>, <<2, 5, 8>>,
       <<0, 4, 8>>, <<2, 4, 6>> >>

\* line k holds exactly 2 marks m and 1 empty cell on board b
OpenLine(b, k, m) ==
    /\ Cardinality({j \in 1..3 : b[LineOrder[k][j]] = m}) = 2
    /\ Cardinality({j \in 1..3 : b[LineOrder[k][j]] = None}) = 1

\* the first line open for m, if any, as a set
FirstOpenLine(b, m) ==
    {k \in 1..8 : OpenLine(b, k, m) /\ \A i \in 1..(k - 1) : ~OpenLine(b, i, m)}

\* the empty cell of line k
EmptyCellOf(b, k) ==
    CHOOSE c \in Cells : b[c] = None /\ \E j \in 1..3 : LineOrder[k][j] = c

\* C22: when some line holds exactly 2 O marks and 1 empty cell,
\* get_medium_move returns the empty cell of the first such line in the
\* order rows, columns, diagonals; otherwise, when some line holds exactly 2
\* X marks and 1 empty cell, the empty cell of the first such line;
\* otherwise some empty cell.  A win for O is preferred over a block.
C22_MediumWinBlockRandom ==
    (\E c \in Cells : board[c] = None) =>
        \A moves \in {get_medium_move(board)} :
            IF FirstOpenLine(board, "O") # {}
            THEN moves = {Some(EmptyCellOf(board, k)) :
                             k \in FirstOpenLine(board, "O")}
            ELSE IF FirstOpenLine(board, "X") # {}
            THEN moves = {Some(EmptyCellOf(board, k)) :
                             k \in FirstOpenLine(board, "X")}
            ELSE /\ moves # {}
                 /\ moves \subseteq {Some(c) : c \in {d \in Cells : board[d] = None}}

\* O can win and X must be blocked at another cell, two lines are open for
\* O, and the move is the win on the first of them
C22_Witness ==
    /\ Cardinality({k \in 1..8 : OpenLine(board, k, "O")}) >= 2
    /\ FirstOpenLine(board, "X") # {}
    /\ \E k \in FirstOpenLine(board, "O") :
          /\ \E i \in 1..8 : OpenLine(board, i, "O")
                              /\ EmptyCellOf(board, i) # EmptyCellOf(board, k)
          /\ \A i \in FirstOpenLine(board, "X") :
                 EmptyCellOf(board, i) # EmptyCellOf(board, k)
          /\ get_medium_move(board) = {Some(EmptyCellOf(board, k))}

\* the medium AI's order on the candidates of a player: the empty cells by
\* increasing index, then the player's oldest cell
EnumeratedBefore(c, d) ==
    board[c] = None /\ (board[d] # None \/ c < d)

\* C23: whenever some candidate for O (empty cells in index order, then O's
\* oldest cell if O's history has 3 entries) completes an O line on the
\* board obtained by first removing O's oldest mark (at capacity) and then
\* marking the candidate, get_medium_move_no_draw returns the first such
\* candidate, make_move accepts it, and the make_move call that takes it
\* ends the game with winner O.
C23_MediumTakesImmediateWin ==
    (NoDrawOToMove /\ WinningCandidates # {}) =>
        \E win \in WinningCandidates :
            /\ \A c \in WinningCandidates : c = win \/ EnumeratedBefore(win, c)
            /\ get_medium_move_no_draw(board, x_moves, o_moves) = {Some(win)}
            /\ ENABLED (MakeMove(win) /\ result' = "True")
            /\ ~ENABLED (MakeMove(win) /\ ~(game_over' /\ winner' = "O"))

\* O holds 3 marks, one of them on a line with the winning cell and with
\* another empty cell, and the win takes the eviction of the oldest mark
C23_Witness ==
    /\ NoDrawOToMove
    /\ Len(o_moves) = 3
    /\ ~HoldsLine([board EXCEPT ![o_moves[1]] = None], "X")
    /\ \E win \in WinningCandidates :
          /\ get_medium_move_no_draw(board, x_moves, o_moves) = {Some(win)}
          /\ \E c \in Cells : c < win /\ board[c] = None
          /\ XWinsNext(board, x_moves)

\* X's candidates that complete an X line once X's oldest mark, if X holds
\* 3, is gone and the candidate is marked
XWinningCandidates ==
    {c \in Candidates(board, x_moves) :
        HoldsLine(PlayAt(board, "X", x_moves, c), "X")}

\* C24: whenever O has no immediately winning candidate and X has at least
\* one candidate that would complete an X line after X's eviction,
\* get_medium_move_no_draw returns the first such X-winning position (the
\* block), never a random move.
C24_MediumBlocks ==
    (NoDrawOToMove /\ WinningCandidates = {} /\ XWinningCandidates # {}) =>
        \E block \in XWinningCandidates :
            /\ \A c \in XWinningCandidates :
                   c = block \/ EnumeratedBefore(block, c)
            /\ get_medium_move_no_draw(board, x_moves, o_moves) = {Some(block)}

\* X holds 3 marks and threatens only through its eviction; the block is
\* not the lowest empty cell
C24_Witness ==
    /\ NoDrawOToMove
    /\ WinningCandidates = {}
    /\ Len(x_moves) = 3
    /\ CompletingCells(board, "X") # XWinningCandidates
    /\ \E block \in XWinningCandidates :
          /\ get_medium_move_no_draw(board, x_moves, o_moves) = {Some(block)}
          /\ \E c \in Cells : c < block /\ board[c] = None

\* histories of O given to the easy AI: for every cell a and every length
\* n <= 3, the history of n distinct cells whose oldest entry is a
MaxHistory == 3
OHistories ==
    {<<>>} \cup
    {[k \in 1..n |-> (a + k - 1) % 9] : a \in Cells, n \in 1..MaxHistory}

\* the cells the No-Draw rules offer to O on board b with history om
OfferedToO(b, om) ==
    {c \in Cells : b[c] = None}
        \cup (IF Len(om) >= 3 /\ b[om[1]] = "O" THEN {om[1]} ELSE {})

\* C25: the set of values get_easy_move_no_draw can return is exactly the
\* set of empty cells plus O's oldest index o_moves[0] when O's history has
\* at least 3 entries and that cell still holds O; it returns None only when
\* this set is empty, and never returns a cell holding X or a non-oldest O
\* mark.
C25_EasyNoDrawChoices ==
    \A om \in OHistories :
        \A moves \in {get_easy_move_no_draw(board, <<>>, om)} :
            /\ moves = IF OfferedToO(board, om) = {} THEN {NoPos}
                       ELSE {Some(c) : c \in OfferedToO(board, om)}
            /\ \A move \in moves \ {NoPos} :
                   /\ board[move[1]] # "X"
                   /\ board[move[1]] = "O" => (Len(om) >= 3 /\ move[1] = om[1])

\* a board with an empty cell, an X and two O marks, one of them the oldest
\* of a history of 3: the oldest cell can be returned and the other cannot
C25_Witness ==
    \E om \in OHistories :
        /\ Len(om) = 3
        /\ board[om[1]] = "O"
        /\ board[om[2]] = "O"
        /\ \E c \in Cells : board[c] = "X"
        /\ \E c \in Cells : board[c] = None
        /\ Some(om[1]) \in get_easy_move_no_draw(board, <<>>, om)
        /\ Some(om[2]) \notin get_easy_move_no_draw(board, <<>>, om)

\* the moves are None alone when board b has no empty cell, and else are
\* all indices of empty cells of b
NoneIffFull(b, moves) ==
    IF \A c \in Cells : b[c] # None
    THEN moves = {NoPos}
    ELSE \A move \in moves : move # NoPos /\ b[move[1]] = None

\* C26: each of the three Standard AIs (get_easy_move, get_medium_move,
\* get_hard_move) returns None if and only if the board has no empty cell,
\* and otherwise returns the index of a cell that is empty on the board it
\* was given.
C26_StandardAIsReturnEmptyCellOrNone ==
    mode = "standard" =>
        /\ NoneIffFull(board, get_easy_move(board))
        /\ NoneIffFull(board, get_medium_move(board))
        /\ NoneIffFull(board, {get_hard_move(board)})

\* a drawn game: the board is full and each of the three AIs returns None
C26_Witness ==
    /\ mode = "standard"
    /\ game_over
    /\ winner = None
    /\ \A c \in Cells : board[c] # None
    /\ get_easy_move(board) = {NoPos}
    /\ get_medium_move(board) = {NoPos}
    /\ get_hard_move(board) = NoPos

\* the dictionary _tp_table as a top-level get_hard_move_no_draw call on the
\* current position leaves it, the call itself having started right after
\* the module was loaded
TableLeftBehind ==
    get_hard_move_no_draw_call(_tp_table, board, x_moves, o_moves, "tp")

LineHeld(k, m) == \A j \in 1..3 : board[LineOrder[k][j]] = m

\* C28: in every reachable state of either engine, get_winning_combination()
\* returns None when winner is None, and when winner is set it returns one
\* of the 8 winning lines all three of whose cells currently hold the
\* winner's mark, the first such line in rows, columns, diagonals order.
C28_WinningCombination ==
    \A combo \in {get_winning_combination} :
        IF winner = None THEN combo = <<>>
        ELSE \E k \in 1..8 :
                 /\ combo = LineOrder[k]
                 /\ LineHeld(k, winner)
                 /\ \A i \in 1..(k - 1) : ~LineHeld(i, winner)

\* the winning move completed two lines at once and the first is returned
C28_Witness ==
    /\ winner # None
    /\ Cardinality({k \in 1..8 : LineHeld(k, winner)}) = 2
    /\ \E k \in 1..8 :
          /\ LineHeld(k, winner)
          /\ \E i \in (k + 1)..8 : LineHeld(i, winner)
          /\ get_winning_combination = LineOrder[k]

\* C29: in every reachable No-Draw state, get_oldest_mark(player) returns
\* the first entry of that player's history when the history has 3 entries
\* and None when it has fewer; whenever it returns a position, that cell
\* holds the player's mark and is the cell the player's next accepted move
\* will vacate: an accepted move vacates the cell get_oldest_mark returned
\* for the mover (none when it returned None) and leaves what it returns for
\* the waiting player as it was.
C29_OldestMark ==
    /\ [](\A who \in Marks :
             \A oldest \in {get_oldest_mark(who)} :
                 /\ oldest = IF Len(History(who)) = 3
                             THEN Some(History(who)[1]) ELSE NoPos
                 /\ Len(History(who)) <= 3
                 /\ oldest # NoPos => board[oldest[1]] = who)
    /\ [][AcceptedMove =>
             /\ removed_pos' = get_oldest_mark(current_player)
             /\ \A waiting \in {Other(current_player)} :
                    get_oldest_mark(waiting)' = get_oldest_mark(waiting)]_vars

\* both players hold 3 marks, the last move vacated a cell other than the
\* one it took, and get_oldest_mark returns a position for both
C29_Witness ==
    /\ mode = "no_draw"
    /\ ~game_over
    /\ removed_pos # NoPos
    /\ removed_pos # last_position
    /\ get_oldest_mark("X") = Some(x_moves[1])
    /\ get_oldest_mark("O") = Some(o_moves[1])
    /\ x_moves[1] # x_moves[3]

\* C30: in the No-Draw engine an accepted move by one player leaves every
\* cell holding the opponent's mark and the opponent's move history
\* unchanged: eviction only ever removes the mover's own mark.
C30_EvictionOnlyOwnMark ==
    [][AcceptedMove =>
          \A opponent \in {Other(current_player)} :
              /\ \A c \in Cells : board[c] = opponent => board'[c] = opponent
              /\ HistoryAfter(opponent) = History(opponent)
              /\ \A c \in Vacated : board[c] = current_player]_vars

\* both players hold 3 marks after a move that vacated one cell and took
\* another
C30_Witness ==
    /\ mode = "no_draw"
    /\ result = "True"
    /\ removed_pos # NoPos
    /\ removed_pos # last_position
    /\ board[removed_pos[1]] = None
    /\ Len(x_moves) = 3
    /\ Len(o_moves) = 3
    /\ \A c \in Elements(x_moves) : board[c] = "X"
    /\ \A c \in Elements(o_moves) : board[c] = "O"

----------------------------------------------------------------------------
\* C31: in the No-Draw engine the win test of a move is made on the board
\* after eviction and placement: an accepted move by a player at capacity
\* ends the game with the mover as winner if and only if the mover's three
\* marks after the oldest was removed and the new one placed form a winning
\* line; a line complete only by counting the evicted mark does not win, and
\* the game then continues with the other player to move.
C31_WinTestAfterEviction ==
    [][AcceptedMove /\ Len(History(current_player)) >= 3 =>
          LET mover == current_player
              h == History(mover)
              marks == {h[2], h[3], Placed}
          IN  /\ {i \in Cells : board'[i] = mover} = marks
              /\ IF marks \in Lines
                 THEN game_over' /\ winner' = mover
                 ELSE /\ ~game_over'
                      /\ winner' = None
                      /\ current_player' = Other(mover)]_vars

\* the last move completed a line only if its evicted mark were counted: the
\* cell it vacated and two cells the mover still holds, the cell just taken
\* among them, make a line, and the game goes on
C31_Witness ==
    /\ mode = "no_draw"
    /\ result = "True"
    /\ removed_pos # NoPos
    /\ ~game_over
    /\ \E L \in Lines :
           /\ removed_pos[1] \in L
           /\ last_position[1] \in L
           /\ last_position[1] # removed_pos[1]
           /\ \A i \in L \ {removed_pos[1]} : board[i] = Other(current_player)

----------------------------------------------------------------------------
\* the boards the Standard search is run on here: at most MaxSearchEmpty
\* empty cells, so at most that many nested trial placements
MaxSearchEmpty == 7

\* C32: minimax and get_hard_move (Standard) restore the board they are
\* given: on return from either function, after any number of recursive
\* trial placements, every cell of the passed board holds the value it held
\* at call time.
C32_StandardSearchRestoresBoard ==
    [](Count(board, None) <= MaxSearchEmpty =>
          /\ \A is_maximizing \in BOOLEAN :
                 minimax_call(board, 0, is_maximizing).board = board
          /\ get_hard_move_call(board).board = board)

\* a board with MaxSearchEmpty empty cells and no line on it: the search
\* nests that many trial placements before it returns
C32_Witness ==
    /\ mode = "standard"
    /\ Count(board, None) = MaxSearchEmpty
    /\ ~HoldsLine(board, "X") /\ ~HoldsLine(board, "O")
    /\ get_hard_move_call(board).move # NoPos

----------------------------------------------------------------------------
\* minimax_no_draw leaves the list b and the lists xm and om as they were
ArgumentsUnchanged(ret, b, xm, om) ==
    /\ ret.board = b
    /\ ret.xm = xm
    /\ ret.om = om

\* C33: minimax_no_draw leaves its arguments unchanged on every exit path
\* (terminal return, depth cutoff, cache hit, alpha-beta break, normal
\* return): the board holds the same 9 values as at call time, including
\* when the candidate cell is the evicted oldest cell, and the x_moves and
\* o_moves lists passed in are never mutated because each branch appends to
\* its own copy.
C33_MinimaxNoDrawLeavesArguments ==
    [](mode = "no_draw" =>
        \* the player to move is the one the search moves for first
        LET is_maximizing == current_player = "O"
            max_depth == _get_dynamic_depth(board)
            key == _board_key(board, x_moves, o_moves, is_maximizing)
        IN  \A ret \in {
                \* a window below every score: terminal return; the loops
                \* of O end by the alpha-beta break after one candidate,
                \* the loops of X run to their normal return
                minimax_no_draw(board, 0, is_maximizing, x_moves, o_moves,
                                max_depth, 0 - 20, 0 - 19, _tp_table),
                \* a window above every score: the loops of X end by the
                \* break, the loops of O run to their normal return
                minimax_no_draw(board, 0, is_maximizing, x_moves, o_moves,
                                max_depth, 19, 20, _tp_table),
                \* depth cutoff
                minimax_no_draw(board, max_depth, is_maximizing, x_moves,
                                o_moves, max_depth, NEG_INF, POS_INF,
                                _tp_table),
                \* cache hit
                minimax_no_draw(board, 0, is_maximizing, x_moves, o_moves,
                                max_depth, NEG_INF, POS_INF, key :> 0) } :
                ArgumentsUnchanged(ret, board, x_moves, o_moves))

\* both players at capacity and no line on the board: the mover's oldest
\* cell is a candidate of the loop, and the call returns from its loop with
\* the position stored in the table
C33_Witness ==
    /\ mode = "no_draw"
    /\ ~game_over
    /\ Len(x_moves) = 3 /\ Len(o_moves) = 3
    /\ _board_key(board, x_moves, o_moves, current_player = "O") \in DOMAIN
           minimax_no_draw(board, 0, current_player = "O", x_moves, o_moves,
                           _get_dynamic_depth(board), 0 - 20, 0 - 19,
                           _tp_table).tp

----------------------------------------------------------------------------
\* The plain depth-limited minimax of the No-Draw game: the eviction rule,
\* the terminal scores and the heuristic cutoff of minimax_no_draw, every
\* candidate searched, nothing cached.
RECURSIVE PlainMinimax(_, _, _, _, _, _)
PlainMinimax(b, depth, is_maximizing, xm, om, max_depth) ==
    LET player == IF is_maximizing THEN "O" ELSE "X"
        h == IF is_maximizing THEN om ELSE xm
        Value(c) ==
            IF HoldsLine(PlayAt(b, player, h, c), player)
            THEN IF is_maximizing THEN 10 - depth ELSE depth - 10
            ELSE PlainMinimax(PlayAt(b, player, h, c), depth + 1,
                              ~is_maximizing,
                              IF is_maximizing THEN xm ELSE HistoryWith(h, c),
                              IF is_maximizing THEN HistoryWith(h, c) ELSE om,
                              max_depth)
    IN  IF HoldsLine(b, "O") THEN 10 - depth
        ELSE IF HoldsLine(b, "X") THEN depth - 10
        ELSE IF depth >= max_depth \/ Candidates(b, h) = {}
        THEN _heuristic_score(b)
        ELSE IF is_maximizing
        THEN SetMax({Value(c) : c \in Candidates(b, h)})
        ELSE SetMin({Value(c) : c \in Candidates(b, h)})

\* the search depths tried
MaxDepth == 8

----------------------------------------------------------------------------
\* for each minimax_no_draw call of get_hard_move_no_draw's search loop, on
\* the position of the state, the greatest depth of an invocation under it
SearchDepths == get_hard_move_no_draw_observe(board, x_moves, o_moves, "depths")

\* C35: every call of get_hard_move_no_draw terminates although the No-Draw
\* game graph has cycles: minimax_no_draw is never invoked with depth
\* greater than max_depth (4, 5 or 6), every node at depth max_depth returns
\* without recursing, and so the recursion depth is bounded by max_depth.
C35_SearchDepthBounded ==
    NoDrawOToMove =>
        /\ _get_dynamic_depth(board) \in {4, 5, 6}
        /\ \A depths \in {SearchDepths} :
               \A k \in 1..Len(depths) : depths[k] <= _get_dynamic_depth(board)

\* both players at capacity, so that moves repeat positions, and a search
\* from this position that went down to depth max_depth = 6 and came back
C35_Witness ==
    /\ NoDrawOToMove
    /\ Len(x_moves) = 3 /\ Len(o_moves) = 3
    /\ _get_dynamic_depth(board) = 6
    /\ \E depths \in {SearchDepths} : \E k \in 1..Len(depths) : depths[k] = 6

----------------------------------------------------------------------------
\* C36: in every reachable state of the No-Draw engine, board and histories
\* agree exactly: for each player the entries of the history are pairwise
\* distinct, the set of cells holding that player's mark equals the set of
\* entries of that player's history, the two histories share no entry, and
\* every cell in neither history is empty.
C36_BoardAndHistoriesAgree ==
    mode = "no_draw" =>
        /\ \A who \in Marks :
               LET h == History(who)
               IN  /\ \A j, k \in 1..Len(h) : h[j] = h[k] => j = k
                   /\ {i \in Cells : board[i] = who} = {h[k] : k \in 1..Len(h)}
        /\ {x_moves[k] : k \in 1..Len(x_moves)}
               \cap {o_moves[k] : k \in 1..Len(o_moves)} = {}
        /\ \A i \in Cells :
               (/\ \A k \in 1..Len(x_moves) : x_moves[k] # i
                /\ \A k \in 1..Len(o_moves) : o_moves[k] # i) => board[i] = None

\* both players at capacity after a move that took the mover's own oldest
\* cell again: six marks, three cells in neither history
C36_Witness ==
    /\ mode = "no_draw"
    /\ Len(x_moves) = 3 /\ Len(o_moves) = 3
    /\ result = "True"
    /\ removed_pos = last_position
    /\ Cardinality({i \in Cells : board[i] = None}) = 3

----------------------------------------------------------------------------
\* C37: in every reachable state of either engine, a non-None winner implies
\* game_over, implies the winner holds a complete line, implies the winner
\* equals current_player (the player who made the last move) and implies the
\* other player holds no complete line; and while game_over is false neither
\* player holds a complete line.
C37_WinnerAndLines ==
    /\ winner # None =>
           /\ game_over
           /\ HoldsLine(board, winner)
           /\ winner = current_player
           /\ ~HoldsLine(board, Other(winner))
    /\ ~game_over => \A who \in Marks : ~HoldsLine(board, who)

\* a No-Draw game won by O with a move that evicted O's oldest mark
C37_Witness ==
    /\ mode = "no_draw"
    /\ game_over
    /\ winner = "O"
    /\ current_player = "O"
    /\ removed_pos # NoPos
    /\ HoldsLine(board, "O")

----------------------------------------------------------------------------
\* C38: every Standard game ends: starting from reset, game_over is true
\* after at most 9 accepted moves, each accepted move fills exactly one
\* previously empty cell and no cell is ever cleared or overwritten before
\* reset, and a draw (game_over with winner None) is declared only in a
\* state where all 9 cells are occupied and neither player holds a line.
\* The marks on the board are the accepted moves since reset: the game is
\* over at the latest when they are 9.
C38_StandardGameEnds ==
    /\ [](mode = "standard" =>
            /\ Full(board) => game_over
            /\ (game_over /\ winner = None) =>
                   /\ Full(board)
                   /\ \A who \in Marks : ~HoldsLine(board, who))
    /\ [][mode = "standard" =>
            /\ AcceptedMove =>
                   /\ ~game_over
                   /\ board[Placed] = None
                   /\ board' = [board EXCEPT ![Placed] = current_player]
                   /\ Count(board', None) = Count(board, None) - 1
            \* any other step leaves every cell alone, or is reset()
            /\ ~AcceptedMove =>
                   \/ board' = board
                   \/ board' = EmptyBoard /\ result' = "none" /\ ~game_over'
         ]_vars

\* a Standard game that X opened, drawn by the ninth accepted move
C38_Witness ==
    /\ mode = "standard"
    /\ result = "True"
    /\ game_over
    /\ winner = None
    /\ Count(board, None) = 0
    /\ Count(board, "X") = 5
    /\ ~HoldsLine(board, "X") /\ ~HoldsLine(board, "O")

----------------------------------------------------------------------------
\* the step is a run of the callback _execute_ai_move: nothing else takes an
\* entry off Tk's queue
CallbackRuns == Len(after_queue') < Len(after_queue)

\* the cells whose content the step changes
Rewritten == {i \in Cells : board'[i] # board[i]}

\* C39: under every interleaving of cell clicks, Restart presses and
\* scheduled callbacks, _execute_ai_move changes the board only when it is
\* O's turn in a game that is not over, the mark it places is an O (so no X
\* appears on the board but by a click), and a callback that was scheduled
\* before a Restart leaves the game started by that Restart alone.
C39_CallbackMovesOnlyAsO ==
    [][CallbackRuns =>
          /\ Rewritten # {} =>
                 /\ current_player = "O"
                 /\ ~game_over
          /\ \A i \in Rewritten : board'[i] # "X"
          /\ Head(after_queue) = "earlier_game" =>
                 UNCHANGED <<board, current_player, game_over, winner,
                             x_moves, o_moves>>
      ]_vars

----------------------------------------------------------------------------
\* it is O's turn in a game that is not over
ComputerToMove == ~game_over /\ current_player = "O"

\* C40: the orchestrated game never gets stuck.  In every reachable state
\* where the game is not over, either it is X's turn with ai_thinking false
\* (so _on_cell_click lets a click through to make_move) or it is O's turn
\* with exactly one _execute_ai_move callback scheduled; so whenever it is
\* O's turn the turn eventually passes on (O's move is applied), under any
\* interleaving of clicks and Restart presses.
C40_NeverStuck ==
    /\ [](~game_over =>
            \/ current_player = "X" /\ ~ai_thinking
            \/ current_player = "O" /\ Len(after_queue) = 1)
    /\ (ComputerToMove ~> ~ComputerToMove)

====
